---------------------------- MODULE Spec2Model ----------------------------
(***************************************************************************)
(* FootballStats: a static player catalog (src/data/players.ts), its two   *)
(* lookup functions, and the pages rendered from it                        *)
(* (src/app/page.tsx, src/app/players/[slug]/page.tsx, the footer and the  *)
(* not-found page).                                                        *)
(*                                                                         *)
(* A JavaScript object is modelled by a record; a reference to a catalog   *)
(* record is modelled by its position in `players` ([kind |-> "ref",       *)
(* index |-> i]), because Array.prototype.find/filter/slice return the     *)
(* array's own elements and never copies.  JavaScript strings are TLA+     *)
(* strings: equality is exact and case-sensitive, as === is.               *)
(***************************************************************************)
EXTENDS Integers, Sequences, FiniteSets, TLC

VARIABLES
    players,    \* the module-level array `players` of src/data/players.ts
    pending,    \* async invocations suspended at `await params`
    ret,        \* the most recently completed invocation and what it returned
    kept        \* history: the structured data of one earlier PlayerPage render

vars == <<players, pending, ret, kept>>

---------------------------------------------------------------------------
(* Bounds of the model *)

\* longest catalog drawn from PlayerPool
MaxPlayers == 3
\* largest counter value of the grid the ratio texts are checked over
MaxCounter == 12
\* most invocations suspended at `await params` at the same time
MaxPending == 2

---------------------------------------------------------------------------
(* src/data/players.ts: the data table *)

LionelMessi ==
    [ name |-> "Lionel Messi",
      slug |-> "lionel-messi",
      team |-> "Inter Miami CF",
      position |-> "Forward",
      nationality |-> "Argentina",
      age |-> 38,
      goals |-> 838,
      assists |-> 377,
      appearances |-> 1068,
      image |-> "https://upload.wikimedia.org/wikipedia/commons/8/89/Lionel_Messi_2022.jpg",
      description |-> "Widely regarded as one of the greatest football players of all time, Lionel Messi has broken countless records throughout his illustrious career. An eight-time Ballon d'Or winner, Messi led Argentina to World Cup glory in 2022. He now plays for Inter Miami CF in MLS, continuing to showcase his extraordinary vision, dribbling, and finishing ability." ]

CristianoRonaldo ==
    [ name |-> "Cristiano Ronaldo",
      slug |-> "cristiano-ronaldo",
      team |-> "Al Nassr",
      position |-> "Forward",
      nationality |-> "Portugal",
      age |-> 41,
      goals |-> 921,
      assists |-> 264,
      appearances |-> 1257,
      image |-> "/images/players/cristiano-ronaldo.jpg",
      description |-> "Cristiano Ronaldo is a footballing phenomenon whose relentless drive and physical prowess have earned him five Ballon d'Or awards. With a record-breaking career spanning Manchester United, Real Madrid, Juventus, and now Al Nassr, Ronaldo holds the record for most international goals scored. His aerial ability, pace, and lethal finishing make him one of the most complete forwards ever." ]

KylianMbappe ==
    [ name |-> "Kylian Mbappe",
      slug |-> "kylian-mbappe",
      team |-> "Real Madrid",
      position |-> "Forward",
      nationality |-> "France",
      age |-> 27,
      goals |-> 312,
      assists |-> 138,
      appearances |-> 484,
      image |-> "/images/players/kylian-mbappe.jpg",
      description |-> "Kylian Mbappe is one of the most exciting young talents in world football. The French superstar became a World Cup winner at just 19 years old and has since established himself as one of the most prolific forwards in the game. Now at Real Madrid, Mbappe combines electrifying pace with clinical finishing and exceptional dribbling skills." ]

ErlingHaaland ==
    [ name |-> "Erling Haaland",
      slug |-> "erling-haaland",
      team |-> "Manchester City",
      position |-> "Striker",
      nationality |-> "Norway",
      age |-> 25,
      goals |-> 287,
      assists |-> 58,
      appearances |-> 331,
      image |-> "/images/players/erling-haaland.jpg",
      description |-> "Erling Haaland is a goal-scoring machine who has redefined the modern striker role. Standing at 6'4\", the Norwegian powerhouse combines raw physicality with remarkable technique and lightning pace. Since joining Manchester City, Haaland has shattered Premier League scoring records and continues to terrorize defenses across Europe with his extraordinary finishing instincts." ]

JudeBellingham ==
    [ name |-> "Jude Bellingham",
      slug |-> "jude-bellingham",
      team |-> "Real Madrid",
      position |-> "Midfielder",
      nationality |-> "England",
      age |-> 22,
      goals |-> 68,
      assists |-> 54,
      appearances |-> 289,
      image |-> "/images/players/jude-bellingham.jpg",
      description |-> "Jude Bellingham burst onto the world stage as a teenager at Birmingham City before starring at Borussia Dortmund and earning a blockbuster move to Real Madrid. The English midfielder is known for his box-to-box dynamism, technical skill, and remarkable composure under pressure. He has quickly become one of the most complete midfielders in world football." ]

ViniciusJunior ==
    [ name |-> "Vinicius Junior",
      slug |-> "vinicius-junior",
      team |-> "Real Madrid",
      position |-> "Winger",
      nationality |-> "Brazil",
      age |-> 25,
      goals |-> 108,
      assists |-> 97,
      appearances |-> 316,
      image |-> "/images/players/vinicius-junior.jpg",
      description |-> "Vinicius Junior is a Brazilian winger whose dazzling dribbling and explosive pace make him one of the most thrilling players to watch. A key player for Real Madrid, Vinicius scored the winning goal in the 2022 Champions League final and has established himself as one of the best wide players in world football. His ability to beat defenders one-on-one is virtually unmatched." ]

\* the same table with the last record's slug copied from the record above
\* it and left unedited
PlayersDataCopiedSlug ==
    << LionelMessi, CristianoRonaldo, KylianMbappe, ErlingHaaland,
       JudeBellingham, [ViniciusJunior EXCEPT !.slug = "jude-bellingham"] >>

\* export const players: Player[] = [ ... ]
PlayersData ==
    << LionelMessi, CristianoRonaldo, KylianMbappe, ErlingHaaland,
       JudeBellingham, ViniciusJunior >>

(* Values of the interface Player other than the six of the data table:    *)
(* records the type admits, with counters at the edges the ratio and sum   *)
(* computations meet (appearances = 0, goals = 0, exact halves of a cent)   *)
(* and a description holding the characters that matter inside HTML.       *)
PlayerPool ==
    { [ name |-> "Ada Zero", slug |-> "ada-zero", team |-> "Fc Null",
        position |-> "Goalkeeper", nationality |-> "Chile", age |-> 17,
        goals |-> 0, assists |-> 0, appearances |-> 0,
        image |-> "", description |-> "Has not played yet." ],
      [ name |-> "Bo Friendly", slug |-> "bo-friendly", team |-> "Fc Null",
        position |-> "Winger", nationality |-> "Peru", age |-> 18,
        goals |-> 0, assists |-> 2, appearances |-> 0,
        image |-> "/images/players/bo-friendly.jpg",
        description |-> "Two assists & no goals yet </script><b>in friendlies</b>." ],
      [ name |-> "Di Forty", slug |-> "di-forty", team |-> "Real Madrid",
        position |-> "Defender", nationality |-> "Italy", age |-> 31,
        goals |-> 3, assists |-> 5, appearances |-> 40,
        image |-> "/images/players/di-forty.jpg",
        description |-> "Three goals and five assists in forty appearances." ] }

\* the slugs of a catalog are pairwise distinct (the data table's are)
UniqueSlugs(catalog) ==
    \A i, j \in 1..Len(catalog) :
        i # j => catalog[i].slug # catalog[j].slug

\* every catalog of at most MaxPlayers pool records with distinct slugs
PoolCatalogs ==
    { c \in UNION { [1..n -> PlayerPool] : n \in 0..MaxPlayers } :
        UniqueSlugs(c) }

\* records the type admits as well (number), with a counter below zero
NegativeCounterPool ==
    { [p EXCEPT !.goals = -3] : p \in { q \in PlayerPool : q.slug = "di-forty" } }
        \cup { [p EXCEPT !.appearances = -4] :
                    p \in { q \in PlayerPool : q.slug = "bo-friendly" } }

\* no counter of the catalog is below zero (the data table's are not)
NonNegativeCounters(catalog) ==
    \A i \in 1..Len(catalog) :
        /\ catalog[i].goals >= 0
        /\ catalog[i].assists >= 0
        /\ catalog[i].appearances >= 0

\* every shorter catalog of pool records in which a slug occurs twice or a
\* counter is below zero
MalformedCatalogs ==
    { c \in UNION { [1..n -> PlayerPool \cup NegativeCounterPool] :
                        n \in 1..(MaxPlayers - 1) } :
        ~(UniqueSlugs(c) /\ NonNegativeCounters(c)) }

\* the request strings tried against a catalog: each of its slugs, and
\* strings that are no slug of it (empty, unknown, differently cased)
ProbeSlugs == { "", "__nonexistent__", "Lionel-Messi" }

SlugInputs(catalog) ==
    { catalog[i].slug : i \in 1..Len(catalog) } \cup ProbeSlugs

---------------------------------------------------------------------------
(* src/data/players.ts: the two lookup functions *)

\* JavaScript's undefined
undefined == [kind |-> "undefined"]

\* a reference to the i-th element of the array `players`
Ref(i) == [kind |-> "ref", index |-> i]

\* the object a reference points to
Deref(catalog, r) == catalog[r.index]

\* Array.prototype.find over `players` with (player) => player.slug === slug,
\* scanning from position i: the first matching element itself, or undefined
RECURSIVE findFrom(_, _, _)
findFrom(catalog, slug, i) ==
    IF i > Len(catalog) THEN undefined
    ELSE IF catalog[i].slug = slug THEN Ref(i)
    ELSE findFrom(catalog, slug, i + 1)

\* String.prototype.toLowerCase on the letters A..Z
UpperCaseLetters == "ABCDEFGHIJKLMNOPQRSTUVWXYZ"
LowerCaseLetters == "abcdefghijklmnopqrstuvwxyz"

LowerCaseOf(c) ==
    IF \E k \in 1..26 : SubSeq(UpperCaseLetters, k, k) = c
    THEN LET k == CHOOSE k \in 1..26 : SubSeq(UpperCaseLetters, k, k) = c
         IN  SubSeq(LowerCaseLetters, k, k)
    ELSE c

RECURSIVE toLowerCase(_)
toLowerCase(s) ==
    IF Len(s) = 0 THEN ""
    ELSE LowerCaseOf(SubSeq(s, 1, 1)) \o toLowerCase(SubSeq(s, 2, Len(s)))

\* the lookup with the predicate written on the wrong field:
\* players.find((player) => player.name === slug)
RECURSIVE findByNameFrom(_, _, _)
findByNameFrom(catalog, slug, i) ==
    IF i > Len(catalog) THEN undefined
    ELSE IF catalog[i].name = slug THEN Ref(i)
    ELSE findByNameFrom(catalog, slug, i + 1)

getPlayerBySlugByName(catalog, slug) == findByNameFrom(catalog, slug, 1)

\* the lookup made case-insensitive:
\* players.find((player) => player.slug.toLowerCase() === slug.toLowerCase())
RECURSIVE findIgnoreCaseFrom(_, _, _)
findIgnoreCaseFrom(catalog, slug, i) ==
    IF i > Len(catalog) THEN undefined
    ELSE IF toLowerCase(catalog[i].slug) = toLowerCase(slug) THEN Ref(i)
    ELSE findIgnoreCaseFrom(catalog, slug, i + 1)

getPlayerBySlugIgnoreCase(catalog, slug) == findIgnoreCaseFrom(catalog, slug, 1)

getPlayerBySlug(catalog, slug) == findFrom(catalog, slug, 1)

\* Array.prototype.map over `players` with (player) => player.slug, from
\* position i: a new array holding one slug per element, in order
RECURSIVE mapFrom(_, _)
mapFrom(catalog, i) ==
    IF i > Len(catalog) THEN << >>
    ELSE << catalog[i].slug >> \o mapFrom(catalog, i + 1)

\* the listing with the callback written on the wrong field:
\* players.map((player) => player.name)
getAllPlayerNames(catalog) == [i \in 1..Len(catalog) |-> catalog[i].name]

\* the listing with a loop that stops one element early
getAllPlayerSlugsButLast(catalog) ==
    [i \in 1..(IF Len(catalog) = 0 THEN 0 ELSE Len(catalog) - 1) |->
        catalog[i].slug]

getAllPlayerSlugs(catalog) == mapFrom(catalog, 1)

---------------------------------------------------------------------------
(* JavaScript numbers, as far as the pages use them *)

Min(a, b) == IF a < b THEN a ELSE b

\* 2^k mod b, by repeated doubling (b >= 1)
RECURSIVE Pow2Mod(_, _)
Pow2Mod(k, b) == IF k = 0 THEN 1 % b ELSE (2 * Pow2Mod(k - 1, b)) % b

\* a / b is a dyadic rational: b divides a * 2^j for some j (a, b >= 1);
\* exactly the quotients an IEEE double holds without rounding here
RECURSIVE OddPart(_)
OddPart(b) == IF b % 2 = 0 THEN OddPart(b \div 2) ELSE b

IsExactQuotient(a, b) == a % OddPart(b) = 0

\* the exponent e with 2^52 <= (a / b) * 2^e < 2^53 (a, b >= 1): the number
\* of fraction bits of the double nearest a / b
RECURSIVE ShiftDown(_, _, _)
ShiftDown(a, b, l) == IF 2 * b <= a THEN ShiftDown(a, 2 * b, l + 1) ELSE l

RECURSIVE ShiftUp(_, _, _)
ShiftUp(a, b, j) == IF a < b THEN ShiftUp(2 * a, b, j + 1) ELSE j

DoubleExponent(a, b) ==
    IF a >= b THEN 52 - ShiftDown(a, b, 0) ELSE 52 + ShiftUp(a, b, 0)

\* the double nearest a / b lies above a / b (round-to-nearest of the 53-bit
\* significand rounds up): the remainder of a * 2^e by b exceeds b / 2
DoubleRoundsUp(a, b) ==
    LET r == ((a % b) * Pow2Mod(DoubleExponent(a, b), b)) % b
    IN  2 * r > b

Abs(a) == IF a < 0 THEN -a ELSE a

\* the `/` operator on two integers: NaN for 0 / 0, Infinity or -Infinity
\* for a / 0 by the sign of a, otherwise the double nearest the quotient,
\* held as its sign and the magnitudes of the operands
Divide(a, b) ==
    IF b = 0
    THEN IF a = 0 THEN [kind |-> "NaN"]
         ELSE IF a > 0 THEN [kind |-> "Infinity"] ELSE [kind |-> "-Infinity"]
    ELSE [ kind |-> "finite", negative |-> (a < 0) # (b < 0),
           num |-> Abs(a), den |-> Abs(b) ]

\* the digits cut off after the second instead of rounded
HundredthsTruncated(a, b) == (100 * a) \div b

\* the integer n for which n / 100 is nearest the double x = a / b, the
\* larger n of two equally near (Number.prototype.toFixed, step 10.a)
Hundredths(a, b) ==
    LET lo == (100 * a) \div b
        twice == (200 * a) \div b
        halfway == (200 * a) % b = 0 /\ twice % 2 = 1
    IN  IF a = 0 THEN 0
        ELSE IF halfway
        THEN IF IsExactQuotient(a, b) \/ DoubleRoundsUp(a, b)
             THEN lo + 1 ELSE lo
        ELSE IF twice % 2 = 1 THEN lo + 1 ELSE lo

\* the two fraction digits of toFixed(2)
TwoDigits(n) == IF n < 10 THEN "0" \o ToString(n) ELSE ToString(n)

\* Number.prototype.toFixed(2): "NaN", "Infinity" and "-Infinity" for the
\* non-finite values, otherwise the decimal with exactly two fraction
\* digits, after a "-" when the number is below zero (step 6: x < 0, which
\* -0 is not)
toFixed2(x) ==
    IF x.kind = "NaN" THEN "NaN"
    ELSE IF x.kind = "Infinity" THEN "Infinity"
    ELSE IF x.kind = "-Infinity" THEN "-Infinity"
    ELSE LET n == Hundredths(x.num, x.den)
         IN  (IF x.negative /\ x.num # 0 THEN "-" ELSE "")
                 \o ToString(n \div 100) \o "." \o TwoDigits(n % 100)

---------------------------------------------------------------------------
(* Shared components: header, footer, player card, not-found page *)

\* a link built from the display name instead of the slug
PlayerHrefByName(player) == "/players/" \o player.name

\* the href of a player's detail page: `/players/${player.slug}`
PlayerHref(player) == "/players/" \o player.slug

\* player.image || "/placeholder.svg": the empty string is falsy
ImageSrc(player) == IF player.image = "" THEN "/placeholder.svg" ELSE player.image

\* SiteHeader: the logo link and the two navigation links
SiteHeader == [links |-> <<"/", "/", "/#players">>]

\* a footer whose player links are written out by hand for the six players
\* of the data table, whatever the catalog holds
SiteFooterWrittenOut(catalog) ==
    [ brand |-> "/",
      playerLinks |-> [i \in 1..Len(PlayersData) |->
                          [ key |-> PlayersData[i].slug,
                            href |-> "/players/" \o PlayersData[i].slug,
                            text |-> PlayersData[i].name ]],
      quickLinks |-> <<"/", "/#players">> ]

\* SiteFooter: the brand link, one link per catalog player in catalog order
\* (players.map), and the two quick links
SiteFooter(catalog) ==
    [ brand |-> "/",
      playerLinks |-> [i \in 1..Len(catalog) |->
                          [ key |-> catalog[i].slug,
                            href |-> PlayerHref(catalog[i]),
                            text |-> catalog[i].name ]],
      quickLinks |-> <<"/", "/#players">> ]

\* PlayerCard: one card of the hub page, linking to the player's page
PlayerCard(player) ==
    [ href |-> PlayerHref(player),
      imageSrc |-> ImageSrc(player),
      imageAlt |-> player.name \o " - " \o player.team \o " " \o player.position,
      position |-> player.position,
      name |-> player.name,
      team |-> player.team,
      goals |-> player.goals,
      assists |-> player.assists,
      appearances |-> player.appearances,
      nationality |-> player.nationality ]

\* PlayerNotFound: the page shown after notFound(), with its link to the hub
PlayerNotFound(catalog) ==
    [ view |-> "PlayerNotFound",
      header |-> SiteHeader,
      heading |-> "Player Not Found",
      backLink |-> "/",
      footer |-> SiteFooter(catalog) ]

---------------------------------------------------------------------------
(* src/app/players/[slug]/page.tsx *)

\* the string of an integer inside a template literal
NumberToString(n) == ToString(n)

\* the bundle generateMetadata returns when the lookup finds nothing
notFoundMetadata ==
    [ title |-> "Player Not Found - FootballStats",
      description |-> "The requested player profile could not be found." ]

\* the bundle with the appearances left out of both descriptions
playerMetadataWithoutAppearances(player) ==
    [ title |-> player.name \o " - " \o player.team
                   \o " | Stats & Profile | FootballStats",
      description |-> player.name \o " plays " \o player.position
                   \o " for " \o player.team \o ". Career stats: "
                   \o ToString(player.goals) \o " goals, "
                   \o ToString(player.assists)
                   \o " assists. Detailed football player profile and performance analysis.",
      keywords |-> << player.name \o " stats",
                      player.name \o " " \o player.team,
                      player.name \o " goals assists",
                      "football player stats",
                      "soccer player profile" >>,
      openGraph |->
          [ title |-> player.name \o " - " \o player.team \o " Stats & Profile",
            description |-> player.name \o " plays " \o player.position
                   \o " for " \o player.team \o ". "
                   \o ToString(player.goals) \o " goals, "
                   \o ToString(player.assists) \o " assists.",
            type |-> "profile",
            url |-> "https://footballstats.vercel.app/players/" \o player.slug,
            images |-> << [ url |-> player.image,
                            width |-> 600,
                            height |-> 750,
                            alt |-> player.name \o " - " \o player.team ] >> ] ]

\* the bundle generateMetadata interpolates from the player it found
playerMetadata(player) ==
    [ title |-> player.name \o " - " \o player.team
                   \o " | Stats & Profile | FootballStats",
      description |-> player.name \o " plays " \o player.position
                   \o " for " \o player.team \o ". Career stats: "
                   \o NumberToString(player.goals) \o " goals, "
                   \o NumberToString(player.assists) \o " assists in "
                   \o NumberToString(player.appearances)
                   \o " appearances. Detailed football player profile and performance analysis.",
      keywords |-> << player.name \o " stats",
                      player.name \o " " \o player.team,
                      player.name \o " goals assists",
                      "football player stats",
                      "soccer player profile" >>,
      openGraph |->
          [ title |-> player.name \o " - " \o player.team \o " Stats & Profile",
            description |-> player.name \o " plays " \o player.position
                   \o " for " \o player.team \o ". "
                   \o NumberToString(player.goals) \o " goals, "
                   \o NumberToString(player.assists) \o " assists in "
                   \o NumberToString(player.appearances) \o " appearances.",
            type |-> "profile",
            url |-> "https://footballstats.vercel.app/players/" \o player.slug,
            images |-> << [ url |-> player.image,
                            width |-> 600,
                            height |-> 750,
                            alt |-> player.name \o " - " \o player.team ] >> ] ]

\* generateMetadata with a lookup of its own that ignores letter case
generateMetadataIgnoringCase(catalog, slug) ==
    LET found == getPlayerBySlugIgnoreCase(catalog, slug)
    IN  IF found.kind = "undefined"
        THEN [ title |-> "Player Not Found - FootballStats",
               description |-> "The requested player profile could not be found." ]
        ELSE playerMetadata(Deref(catalog, found))

\* generateMetadata with the requested slug echoed into the fallback title
generateMetadataEchoingSlug(catalog, slug) ==
    LET found == getPlayerBySlug(catalog, slug)
    IN  IF found.kind = "undefined"
        THEN [ title |-> "Player " \o slug \o " Not Found - FootballStats",
               description |-> "The requested player profile could not be found." ]
        ELSE playerMetadata(Deref(catalog, found))

\* generateMetadata after `await params`: the fixed fallback bundle when the
\* lookup finds nothing, else the bundle interpolated from the player
generateMetadata(catalog, slug) ==
    LET found == getPlayerBySlug(catalog, slug)
    IN  IF found.kind = "undefined"
        THEN notFoundMetadata
        ELSE playerMetadata(Deref(catalog, found))

\* generateStaticParams: getAllPlayerSlugs().map((slug) => ({ slug }))
generateStaticParams(catalog) ==
    LET slugs == getAllPlayerSlugs(catalog)
    IN  [i \in 1..Len(slugs) |-> [slug |-> slugs[i]]]

\* the JSON-LD object with the team pasted into the nationality as well
jsonLdTeamAsNationality(player) ==
    [ context |-> "https://schema.org",
      type |-> "Person",
      name |-> player.name,
      jobTitle |-> "Professional Football Player - " \o player.position,
      memberOf |-> [type |-> "SportsTeam", name |-> player.team],
      nationality |-> [type |-> "Country", name |-> player.team],
      url |-> "https://footballstats.vercel.app/players/" \o player.slug,
      image |-> player.image,
      description |-> player.description ]

\* the JSON-LD object literal of PlayerPage
jsonLd(player) ==
    [ context |-> "https://schema.org",
      type |-> "Person",
      name |-> player.name,
      jobTitle |-> "Professional Football Player - " \o player.position,
      memberOf |-> [type |-> "SportsTeam", name |-> player.team],
      nationality |-> [type |-> "Country", name |-> player.nationality],
      url |-> "https://footballstats.vercel.app/players/" \o player.slug,
      image |-> player.image,
      description |-> player.description ]

\* QuoteJSONString, one character: the quote, the backslash and the control
\* characters get their escape, every other character is copied as it is
JSONEscapeCharacter(c) ==
    IF c = "\"" THEN "\\\""
    ELSE IF c = "\\" THEN "\\\\"
    ELSE IF c = "\n" THEN "\\n"
    ELSE IF c = "\r" THEN "\\r"
    ELSE IF c = "\t" THEN "\\t"
    ELSE IF c = "\f" THEN "\\f"
    ELSE c

\* the characters first..last of the text, each escaped, in order (the
\* range is halved so that the evaluation stays shallow on long texts)
RECURSIVE JSONEscapeRange(_, _, _)
JSONEscapeRange(text, first, last) ==
    IF first > last THEN ""
    ELSE IF first = last THEN JSONEscapeCharacter(SubSeq(text, first, first))
    ELSE LET middle == (first + last) \div 2
         IN  JSONEscapeRange(text, first, middle)
                 \o JSONEscapeRange(text, middle + 1, last)

\* QuoteJSONString: the text between double quotes, escaped
QuoteJSONString(text) == "\"" \o JSONEscapeRange(text, 1, Len(text)) \o "\""

\* JSON.stringify(jsonLd): the properties in the order the object literal
\* creates them, without white space
JSONstringify(obj) ==
    "{" \o "\"@context\":" \o QuoteJSONString(obj.context)
        \o ",\"@type\":" \o QuoteJSONString(obj.type)
        \o ",\"name\":" \o QuoteJSONString(obj.name)
        \o ",\"jobTitle\":" \o QuoteJSONString(obj.jobTitle)
        \o ",\"memberOf\":{\"@type\":" \o QuoteJSONString(obj.memberOf.type)
        \o ",\"name\":" \o QuoteJSONString(obj.memberOf.name) \o "}"
        \o ",\"nationality\":{\"@type\":" \o QuoteJSONString(obj.nationality.type)
        \o ",\"name\":" \o QuoteJSONString(obj.nationality.name) \o "}"
        \o ",\"url\":" \o QuoteJSONString(obj.url)
        \o ",\"image\":" \o QuoteJSONString(obj.image)
        \o ",\"description\":" \o QuoteJSONString(obj.description)
    \o "}"

\* players.filter((p) => p.slug !== player.slug), scanning from position i:
\* references to the elements kept, in catalog order
RECURSIVE filterFrom(_, _, _)
filterFrom(catalog, player, i) ==
    IF i > Len(catalog) THEN << >>
    ELSE IF catalog[i].slug # player.slug
         THEN << Ref(i) >> \o filterFrom(catalog, player, i + 1)
         ELSE filterFrom(catalog, player, i + 1)

\* the section built from the whole catalog, without the filter
otherPlayersUnfiltered(catalog, player) == [i \in 1..Len(catalog) |-> Ref(i)]

otherPlayers(catalog, player) == filterFrom(catalog, player, 1)

\* Array.prototype.slice(0, end) for end >= 0
slice(array, end) == SubSeq(array, 1, Min(end, Len(array)))

\* the section taken from the end of the list: otherPlayers.slice(-3)
relatedPlayersLastThree(catalog, player) ==
    LET others == otherPlayers(catalog, player)
    IN  SubSeq(others, Len(others) - Min(3, Len(others)) + 1, Len(others))

\* the players of the "More Player Profiles" section: otherPlayers.slice(0, 3)
relatedPlayers(catalog, player) == slice(otherPlayers(catalog, player), 3)

\* the three "Performance Ratios" texts
performanceRatios(player) ==
    [ goalsPerApp |-> toFixed2(Divide(player.goals, player.appearances)),
      assistsPerApp |-> toFixed2(Divide(player.assists, player.appearances)),
      gaPerApp |-> toFixed2(Divide(player.goals + player.assists, player.appearances)) ]

\* JSON.stringify(jsonLd) of each record a catalog can hold, computed once
JSONstringifyJsonLd ==
    LET records == { PlayersData[i] : i \in 1..Len(PlayersData) }
                       \cup PlayerPool \cup NegativeCounterPool
        texts == { <<p, JSONstringify(jsonLd(p))>> : p \in records }
    IN  [ p \in records |-> (CHOOSE t \in texts : t[1] = p)[2] ]

\* what PlayerPage returns for a player that was found
PlayerPageView(catalog, player) ==
    LET related == relatedPlayers(catalog, player)
    IN  [ view |-> "PlayerPage",
          header |-> SiteHeader,
          jsonLd |-> jsonLd(player),
          script |-> [ type |-> "application/ld+json",
                       html |-> JSONstringifyJsonLd[player] ],
          breadcrumb |-> [links |-> <<"/", "/#players">>, current |-> player.name],
          imageSrc |-> ImageSrc(player),
          imageAlt |-> player.name \o " - " \o player.team \o " " \o player.position,
          position |-> player.position,
          name |-> player.name,
          team |-> player.team,
          nationality |-> player.nationality,
          goals |-> player.goals,
          assists |-> player.assists,
          appearances |-> player.appearances,
          age |-> player.age,
          ratios |-> performanceRatios(player),
          about |-> player.description,
          related |-> [k \in 1..Len(related) |->
                          LET p == Deref(catalog, related[k])
                          IN  [ key |-> p.slug,
                                href |-> PlayerHref(p),
                                imageSrc |-> ImageSrc(p),
                                imageAlt |-> p.name \o " - " \o p.team,
                                name |-> p.name,
                                team |-> p.team,
                                goals |-> p.goals ]],
          viewAll |-> "/#players",
          footer |-> SiteFooter(catalog) ]

\* notFound() of next/navigation throws; the framework answers with the
\* route's not-found page
notFound(catalog) ==
    [outcome |-> "notFound", value |-> PlayerNotFound(catalog)]

\* PlayerPage without the `if (!player) notFound()` guard: reading
\* player.name of undefined throws a TypeError
PlayerPageUnguarded(catalog, slug) ==
    LET found == getPlayerBySlug(catalog, slug)
    IN  IF found.kind = "undefined"
        THEN [outcome |-> "fault", value |-> [view |-> "TypeError"]]
        ELSE [ outcome |-> "returned",
               value |-> PlayerPageView(catalog, Deref(catalog, found)) ]

\* PlayerPage after `await params`
PlayerPage(catalog, slug) ==
    LET found == getPlayerBySlug(catalog, slug)
    IN  IF found.kind = "undefined"
        THEN notFound(catalog)
        ELSE [ outcome |-> "returned",
               value |-> PlayerPageView(catalog, Deref(catalog, found)) ]

---------------------------------------------------------------------------
(* src/app/page.tsx *)

\* a variant whose callback leaves the first element out
RECURSIVE reduceSumOfOthers(_, _, _)
reduceSumOfOthers(values, i, sum) ==
    IF i > Len(values) THEN sum
    ELSE reduceSumOfOthers(values, i + 1, IF i = 1 THEN sum ELSE sum + values[i])

\* Array.prototype.reduce((sum, p) => sum + p.<counter>, 0) over the counter
\* values, from position i with the running sum
RECURSIVE reduceSum(_, _, _)
reduceSum(values, i, sum) ==
    IF i > Len(values) THEN sum ELSE reduceSum(values, i + 1, sum + values[i])

ThreeDigits(n) ==
    IF n < 10 THEN "00" \o ToString(n)
    ELSE IF n < 100 THEN "0" \o ToString(n) ELSE ToString(n)

\* Number.prototype.toLocaleString() of an integer in the server's default
\* locale (en-US): groups of three digits joined by commas, after a "-"
\* when the number is below zero
RECURSIVE toLocaleString(_)
toLocaleString(n) ==
    IF n < 0 THEN "-" \o toLocaleString(-n)
    ELSE IF n < 1000 THEN ToString(n)
    ELSE toLocaleString(n \div 1000) \o "," \o ThreeDigits(n % 1000)

\* HomePage: the statistics overview and one PlayerCard per catalog player
HomePage(catalog) ==
    [ view |-> "HomePage",
      header |-> SiteHeader,
      explore |-> "#players",
      playerProfiles |-> Len(catalog),
      totalGoals |-> toLocaleString(
          reduceSum([i \in 1..Len(catalog) |-> catalog[i].goals], 1, 0)),
      totalAssists |-> toLocaleString(
          reduceSum([i \in 1..Len(catalog) |-> catalog[i].assists], 1, 0)),
      totalAppearances |-> toLocaleString(
          reduceSum([i \in 1..Len(catalog) |-> catalog[i].appearances], 1, 0)),
      cards |-> [i \in 1..Len(catalog) |->
                    [key |-> catalog[i].slug, card |-> PlayerCard(catalog[i])]],
      footer |-> SiteFooter(catalog) ]

---------------------------------------------------------------------------
(* The process: the catalog and the invocations made on it *)

\* nothing has been invoked yet
NoReturn ==
    [op |-> "none", args |-> << >>, outcome |-> "none", value |-> undefined]

\* no response has been retained yet
NoKept == [taken |-> FALSE, slug |-> "", html |-> "", between |-> FALSE]

\* the data table as the module evaluates it
Init ==
    /\ players = PlayersData
    /\ pending = {}
    /\ ret = NoReturn
    /\ kept = NoKept

\* any well-formed catalog: the data table or one drawn from the pool
InitCatalog ==
    /\ players \in PoolCatalogs \cup {PlayersData}
    /\ pending = {}
    /\ ret = NoReturn
    /\ kept = NoKept

\* the module evaluated over a catalog that is not well-formed: the array
\* literal is taken as written
InitMalformed ==
    /\ players \in MalformedCatalogs
    /\ pending = {}
    /\ ret = NoReturn
    /\ kept = NoKept

CallGetPlayerBySlug ==
    \E slug \in SlugInputs(players) :
        /\ ret' = [ op |-> "getPlayerBySlug", args |-> <<slug>>,
                    outcome |-> "returned",
                    value |-> getPlayerBySlug(players, slug) ]
        /\ UNCHANGED <<players, pending, kept>>

CallGetAllPlayerSlugs ==
    /\ ret' = [ op |-> "getAllPlayerSlugs", args |-> << >>,
                outcome |-> "returned",
                value |-> getAllPlayerSlugs(players) ]
    /\ UNCHANGED <<players, pending, kept>>

CallGenerateStaticParams ==
    /\ ret' = [ op |-> "generateStaticParams", args |-> << >>,
                outcome |-> "returned",
                value |-> generateStaticParams(players) ]
    /\ UNCHANGED <<players, pending, kept>>

\* generateMetadata({ params }) up to `await params`
StartGenerateMetadata ==
    \E slug \in SlugInputs(players) :
        /\ Cardinality(pending) < MaxPending
        /\ [op |-> "generateMetadata", slug |-> slug] \notin pending
        /\ pending' = pending \cup {[op |-> "generateMetadata", slug |-> slug]}
        /\ UNCHANGED <<players, ret, kept>>

\* a variant that reads the slug from a place every invocation writes: the
\* slug of any suspended invocation, not its own
ResumeGenerateMetadataSharedSlug ==
    \E inv \in pending :
        /\ inv.op = "generateMetadata"
        /\ pending' = pending \ {inv}
        /\ \E other \in pending :
               ret' = [ op |-> "generateMetadata", args |-> <<inv.slug>>,
                        outcome |-> "returned",
                        value |-> generateMetadata(players, other.slug) ]
        /\ UNCHANGED <<players, kept>>

\* generateMetadata from `await params` to its return
ResumeGenerateMetadata ==
    \E inv \in pending :
        /\ inv.op = "generateMetadata"
        /\ pending' = pending \ {inv}
        /\ ret' = [ op |-> "generateMetadata", args |-> <<inv.slug>>,
                    outcome |-> "returned",
                    value |-> generateMetadata(players, inv.slug) ]
        /\ UNCHANGED <<players, kept>>

\* PlayerPage({ params }) up to `await params`
StartPlayerPage ==
    \E slug \in SlugInputs(players) :
        /\ Cardinality(pending) < MaxPending
        /\ [op |-> "PlayerPage", slug |-> slug] \notin pending
        /\ pending' = pending \cup {[op |-> "PlayerPage", slug |-> slug]}
        /\ UNCHANGED <<players, ret, kept>>

\* a variant that serves the elements of the last page another render
\* produced, as a cache at module level would
PlayerPageResumesFromCache(inv) ==
    /\ inv.op = "PlayerPage"
    /\ pending' = pending \ {inv}
    /\ LET result == IF ret.op = "PlayerPage" /\ ret.outcome = "returned"
                     THEN [outcome |-> "returned", value |-> ret.value]
                     ELSE PlayerPage(players, inv.slug)
       IN  ret' = [ op |-> "PlayerPage", args |-> <<inv.slug>>,
                    outcome |-> result.outcome,
                    value |-> result.value ]
    /\ UNCHANGED players

\* PlayerPage from `await params` to its return or to notFound()
PlayerPageResumes(inv) ==
    /\ inv.op = "PlayerPage"
    /\ pending' = pending \ {inv}
    /\ LET result == PlayerPage(players, inv.slug)
       IN  ret' = [ op |-> "PlayerPage", args |-> <<inv.slug>>,
                    outcome |-> result.outcome,
                    value |-> result.value ]
    /\ UNCHANGED players

ResumePlayerPage ==
    \E inv \in pending :
        /\ PlayerPageResumes(inv)
        /\ UNCHANGED kept

\* the same step, after which the receiver may retain the structured data
\* of the page it was served for a later comparison; `between` records
\* that a page of another player was rendered since
ResumePlayerPageKept ==
    \E inv \in pending :
        /\ PlayerPageResumes(inv)
        /\ \/ kept' = IF kept.taken /\ ret'.outcome = "returned"
                                    /\ inv.slug # kept.slug
                      THEN [kept EXCEPT !.between = TRUE]
                      ELSE kept
           \/ /\ ret'.outcome = "returned"
              /\ kept' = [ taken |-> TRUE, slug |-> inv.slug,
                           html |-> ret'.value.script.html,
                           between |-> FALSE ]

CallHomePage ==
    /\ ret' = [ op |-> "HomePage", args |-> << >>,
                outcome |-> "returned",
                value |-> HomePage(players) ]
    /\ UNCHANGED <<players, pending, kept>>

CallSiteFooter ==
    /\ ret' = [ op |-> "SiteFooter", args |-> << >>,
                outcome |-> "returned",
                value |-> SiteFooter(players) ]
    /\ UNCHANGED <<players, pending, kept>>

Next ==
    \/ CallGetPlayerBySlug
    \/ CallGetAllPlayerSlugs
    \/ CallGenerateStaticParams
    \/ StartGenerateMetadata
    \/ ResumeGenerateMetadata
    \/ StartPlayerPage
    \/ ResumePlayerPage
    \/ CallHomePage
    \/ CallSiteFooter

\* the site as deployed: the data table of src/data/players.ts
Spec == Init /\ [][Next]_vars

\* the same code over any well-formed catalog
SpecCatalog == InitCatalog /\ [][Next]_vars

\* the same code over a catalog with a repeated slug or a negative counter
SpecMalformed == InitMalformed /\ [][Next]_vars

\* the pages of the deployed site rendered in any order and overlap, with
\* one earlier response retained by its receiver
NextRenders ==
    \/ StartGenerateMetadata
    \/ ResumeGenerateMetadata
    \/ StartPlayerPage
    \/ ResumePlayerPageKept
    \/ CallHomePage

SpecRenders == Init /\ [][NextRenders]_vars

---------------------------------------------------------------------------
(* Properties *)

\* the positions of the catalog
Positions == 1..Len(players)

\* the slug a completed one-argument invocation was made with
RetSlug == ret.args[1]

\* the request string is the slug of some catalog record
IsCatalogSlug(slug) == \E i \in Positions : players[i].slug = slug

\* the elements of a sequence
Range(seq) == { seq[k] : k \in 1..Len(seq) }

\* C1: for every player e of the catalog, getPlayerBySlug(e.slug) returns the
\* record at e's own position, and a completed lookup by a catalog slug
\* returned a reference to every record that carries that slug.
C1_LookupReturnsOwnRecord ==
    /\ \A i \in Positions : getPlayerBySlug(players, players[i].slug) = Ref(i)
    /\ ret.op = "getPlayerBySlug" =>
           \A i \in Positions :
               players[i].slug = RetSlug =>
                   /\ ret.value = Ref(i)
                   /\ Deref(players, ret.value) = players[i]

C1_Witness ==
    /\ ret.op = "getPlayerBySlug"
    /\ Len(players) = 6
    /\ RetSlug = players[6].slug
    /\ ret.value = Ref(6)

\* C2: every identifier listed by getAllPlayerSlugs(), and every { slug }
\* produced by generateStaticParams, looks up to a defined player whose slug
\* is that identifier, so PlayerPage for a listed slug never ends in
\* not-found.
C2_ListedSlugsResolve ==
    /\ ret.op = "getAllPlayerSlugs" =>
           \A k \in 1..Len(ret.value) :
               LET found == getPlayerBySlug(players, ret.value[k])
               IN  /\ found.kind = "ref"
                   /\ Deref(players, found).slug = ret.value[k]
    /\ ret.op = "generateStaticParams" =>
           \A k \in 1..Len(ret.value) :
               LET found == getPlayerBySlug(players, ret.value[k].slug)
               IN  /\ found.kind = "ref"
                   /\ Deref(players, found).slug = ret.value[k].slug
    /\ (ret.op = "PlayerPage"
          /\ \E k \in 1..Len(generateStaticParams(players)) :
                 generateStaticParams(players)[k].slug = RetSlug) =>
           /\ ret.outcome = "returned"
           /\ ret.value.view = "PlayerPage"

C2_Witness ==
    /\ ret.op = "generateStaticParams"
    /\ Len(ret.value) = 6
    /\ ret.value[6].slug = "vinicius-junior"

\* C3: a lookup by a string that is not exactly (case-sensitively) the slug
\* of a catalog player returns undefined and does not fail.
C3_UnknownSlugIsUndefined ==
    (ret.op = "getPlayerBySlug" /\ ~IsCatalogSlug(RetSlug)) =>
        /\ ret.outcome = "returned"
        /\ ret.value = undefined

C3_Witness ==
    /\ ret.op = "getPlayerBySlug"
    /\ players = PlayersData
    /\ RetSlug = "Lionel-Messi"
    /\ ret.outcome = "returned"
    /\ ret.value = undefined

\* C4: no two records of the catalog have the same slug.
C4_SlugsAreUnique ==
    \A i, j \in Positions : i # j => players[i].slug # players[j].slug

C4_Witness ==
    /\ Len(players) = 6
    /\ ret.op = "getAllPlayerSlugs"
    /\ Cardinality(Range(ret.value)) = 6

\* C5: getAllPlayerSlugs() returns a sequence as long as the catalog whose
\* i-th element is the slug of the i-th player; for an empty catalog it is
\* the empty sequence.
C5_AllSlugsInCatalogOrder ==
    ret.op = "getAllPlayerSlugs" =>
        /\ ret.outcome = "returned"
        /\ Len(ret.value) = Len(players)
        /\ \A i \in Positions : ret.value[i] = players[i].slug
        /\ players = << >> => ret.value = << >>

C5_Witness ==
    /\ ret.op = "getAllPlayerSlugs"
    /\ Len(players) = 3
    /\ ret.value = << players[1].slug, players[2].slug, players[3].slug >>

\* C5, the empty catalog: the listing is the empty sequence
C5_WitnessEmpty ==
    /\ ret.op = "getAllPlayerSlugs"
    /\ players = << >>
    /\ ret.value = << >>

\* the invocation handed its caller a reference to a record the catalog
\* holds: find returns the element itself, an object with writable fields
HandsOutCatalogRecord ==
    /\ ret.op = "getPlayerBySlug"
    /\ ret.value.kind = "ref"
    /\ ret.value.index \in Positions

\* C6: after any sequence of invocations the catalog holds the records it was
\* constructed with, in the same order, and no invocation has handed out a
\* reference through which its caller can change a catalog record.
C6_CatalogNeverMutatedNorShared ==
    /\ players = PlayersData
    /\ ~HandsOutCatalogRecord

\* C6, the part about the operations of the repository: no step of any
\* invocation changes the catalog
C6_NoInvocationWritesCatalog == [][players' = players]_vars

\* the text of a ratio is a number, not "NaN" or "Infinity"
IsFiniteText(text) == text \notin {"NaN", "Infinity", "-Infinity"}

\* C7: on the page of a player with appearances = 0 the three performance
\* ratios are one and the same defined fallback text, none of them "NaN" or
\* "Infinity", and the render does not fail.
C7_ZeroAppearancesFallback ==
    (ret.op = "PlayerPage" /\ IsCatalogSlug(RetSlug)
        /\ Deref(players, getPlayerBySlug(players, RetSlug)).appearances = 0) =>
        /\ ret.outcome = "returned"
        /\ IsFiniteText(ret.value.ratios.goalsPerApp)
        /\ IsFiniteText(ret.value.ratios.assistsPerApp)
        /\ IsFiniteText(ret.value.ratios.gaPerApp)
        /\ ret.value.ratios.goalsPerApp = ret.value.ratios.assistsPerApp
        /\ ret.value.ratios.assistsPerApp = ret.value.ratios.gaPerApp

\* C8: the related-players list of a player's page never holds a player with
\* that page's slug and never has more than 3 entries.
C8_RelatedExcludesCurrentAtMostThree ==
    /\ \A i \in Positions :
           LET related == relatedPlayers(players, players[i])
           IN  /\ Len(related) <= 3
               /\ \A k \in 1..Len(related) :
                      Deref(players, related[k]).slug # players[i].slug
    /\ (ret.op = "PlayerPage" /\ ret.outcome = "returned") =>
           /\ Len(ret.value.related) <= 3
           /\ \A k \in 1..Len(ret.value.related) :
                  /\ ret.value.related[k].key # RetSlug
                  /\ ret.value.related[k].href # "/players/" \o RetSlug

C8_Witness ==
    /\ ret.op = "PlayerPage"
    /\ ret.outcome = "returned"
    /\ players = PlayersData
    /\ RetSlug = "lionel-messi"
    /\ Len(ret.value.related) = 3
    /\ ret.value.related[1].key = "cristiano-ronaldo"

\* the position of the k-th catalog player other than the one at position cur
OtherPosition(cur, k) == IF k < cur THEN k ELSE k + 1

\* C9: the related-players list of a page is exactly the first min(3, n-1)
\* catalog players other than the current one, in catalog order: fewer than
\* 3 when fewer than 3 others exist, none when the catalog holds only the
\* current player, and a function of the catalog and the slug alone.
C9_RelatedIsFirstThreeOthers ==
    (ret.op = "PlayerPage" /\ ret.outcome = "returned") =>
        LET cur == getPlayerBySlug(players, RetSlug).index
            n == Len(players)
        IN  /\ Len(ret.value.related) = Min(3, n - 1)
            /\ \A k \in 1..Len(ret.value.related) :
                   LET other == players[OtherPosition(cur, k)]
                   IN  /\ ret.value.related[k].key = other.slug
                       /\ ret.value.related[k].href = "/players/" \o other.slug
                       /\ ret.value.related[k].name = other.name
            /\ n = 1 => ret.value.related = << >>

C9_Witness ==
    /\ ret.op = "PlayerPage"
    /\ ret.outcome = "returned"
    /\ Len(players) = 3
    /\ RetSlug = players[2].slug
    /\ Len(ret.value.related) = 2
    /\ ret.value.related[1].key = players[1].slug
    /\ ret.value.related[2].key = players[3].slug

\* C9, the catalog that holds only the current player: no related players
C9_WitnessAlone ==
    /\ ret.op = "PlayerPage"
    /\ ret.outcome = "returned"
    /\ Len(players) = 1
    /\ ret.value.related = << >>

\* C9, more than 3 other players: the first 3 of them
C9_WitnessTruncated ==
    /\ ret.op = "PlayerPage"
    /\ players = PlayersData
    /\ RetSlug = "kylian-mbappe"
    /\ Len(ret.value.related) = 3
    /\ ret.value.related[3].key = "erling-haaland"

\* C10: PlayerPage for a slug that matches no catalog player ends in
\* notFound() and the PlayerNotFound page with its link back to the hub; it
\* does not fail on the missing record and renders no player page, no
\* structured data and no ratios.
C10_UnknownSlugIsNotFoundPage ==
    (ret.op = "PlayerPage" /\ ~IsCatalogSlug(RetSlug)) =>
        /\ ret.outcome = "notFound"
        /\ ret.value.view = "PlayerNotFound"
        /\ ret.value.backLink = "/"
        /\ "jsonLd" \notin DOMAIN ret.value
        /\ "ratios" \notin DOMAIN ret.value
        /\ "related" \notin DOMAIN ret.value

C10_Witness ==
    /\ ret.op = "PlayerPage"
    /\ RetSlug = "__nonexistent__"
    /\ ret.outcome = "notFound"
    /\ ret.value.view = "PlayerNotFound"

\* C11: for every slug that matches no catalog player generateMetadata
\* returns one fixed fallback bundle, the same whatever the slug and whatever
\* the catalog holds, and does not fail.
C11_NotFoundMetadataIsFixed ==
    (ret.op = "generateMetadata" /\ ~IsCatalogSlug(RetSlug)) =>
        /\ ret.outcome = "returned"
        /\ ret.value =
               [ title |-> "Player Not Found - FootballStats",
                 description |-> "The requested player profile could not be found." ]

C11_Witness ==
    /\ ret.op = "generateMetadata"
    /\ RetSlug = "__nonexistent__"
    /\ Len(players) >= 1
    /\ ret.value.title = "Player Not Found - FootballStats"

\* the text holds the part as a run of consecutive characters
Contains(text, part) ==
    \E k \in 1..(Len(text) - Len(part) + 1) :
        SubSeq(text, k, k + Len(part) - 1) = part

\* C12: for every catalog player the metadata title holds the player's name
\* and team, and the description holds the goals, assists and appearances of
\* that same player, each as the count put before its word.
C12_MetadataNamesPlayerTeamAndCounters ==
    (ret.op = "generateMetadata" /\ IsCatalogSlug(RetSlug)) =>
        LET player == Deref(players, getPlayerBySlug(players, RetSlug))
        IN  /\ Contains(ret.value.title, player.name)
            /\ Contains(ret.value.title, player.team)
            /\ Contains(ret.value.description,
                        " " \o ToString(player.goals) \o " goals")
            /\ Contains(ret.value.description,
                        " " \o ToString(player.assists) \o " assists")
            /\ Contains(ret.value.description,
                        " " \o ToString(player.appearances) \o " appearances")

C12_Witness ==
    /\ ret.op = "generateMetadata"
    /\ RetSlug = "lionel-messi"
    /\ Contains(ret.value.title, "Lionel Messi")
    /\ Contains(ret.value.title, "Inter Miami CF")
    /\ Contains(ret.value.description, "838 goals, 377 assists in 1068 appearances")

\* C13: for every catalog player the structured-data record of the page has
\* name = player.name, jobTitle = "Professional Football Player - " followed
\* by player.position, memberOf.name = player.team, nationality.name =
\* player.nationality, image = player.image, description =
\* player.description, and url = the site base URL, /players/ and the slug.
C13_StructuredDataMapsFields ==
    (ret.op = "PlayerPage" /\ ret.outcome = "returned") =>
        LET player == Deref(players, getPlayerBySlug(players, RetSlug))
            data == ret.value.jsonLd
        IN  /\ data.name = player.name
            /\ data.jobTitle = "Professional Football Player - " \o player.position
            /\ data.memberOf.name = player.team
            /\ data.nationality.name = player.nationality
            /\ data.image = player.image
            /\ data.description = player.description
            /\ data.url = "https://footballstats.vercel.app" \o "/players/" \o player.slug

C13_Witness ==
    /\ ret.op = "PlayerPage"
    /\ ret.outcome = "returned"
    /\ RetSlug = "lionel-messi"
    /\ ret.value.jsonLd.memberOf.name = "Inter Miami CF"
    /\ ret.value.jsonLd.nationality.name = "Argentina"
    /\ ret.value.jsonLd.jobTitle = "Professional Football Player - Forward"
    /\ ret.value.jsonLd.url = "https://footballstats.vercel.app/players/lionel-messi"

\* C14: the structured data of a player is the same text, fields in the same
\* order, in any two renders of that player's page, whatever pages were
\* rendered between the two: a render of the slug of a retained earlier
\* render serializes to the retained text.
C14_StructuredDataIsRepeatable ==
    ( /\ kept.taken
      /\ ret.op = "PlayerPage" /\ ret.outcome = "returned"
      /\ RetSlug = kept.slug ) =>
        ret.value.script.html = kept.html

\* a player's page rendered, another player's page rendered after it, and the
\* first player's page rendered again
C14_Witness ==
    /\ kept.taken /\ kept.between
    /\ kept.slug = "erling-haaland"
    /\ ret.op = "PlayerPage" /\ ret.outcome = "returned"
    /\ RetSlug = kept.slug
    /\ Contains(kept.html, "\"name\":\"Erling Haaland\"")

\* the number a digit character stands for
DigitValue(c) == CHOOSE d \in 0..9 : ToString(d) = c

\* the number a text of digits grouped by commas displays ("2,534" is 2534)
RECURSIVE DisplayedNumber(_)
DisplayedNumber(text) ==
    IF Len(text) = 0 THEN 0
    ELSE LET last == SubSeq(text, Len(text), Len(text))
             rest == SubSeq(text, 1, Len(text) - 1)
         IN  IF last = "," THEN DisplayedNumber(rest)
             ELSE 10 * DisplayedNumber(rest) + DigitValue(last)

\* the sum of a counter over a set of catalog positions
RECURSIVE TotalOver(_, _)
TotalOver(counter, positions) ==
    IF positions = {} THEN 0
    ELSE LET i == CHOOSE k \in positions : TRUE
         IN  counter[i] + TotalOver(counter, positions \ {i})

\* C15: the hub shows the number of catalog players and the sums of their
\* goals, assists and appearances; on an empty catalog it renders, with all
\* four values 0.
C15_HubShowsCountAndTotals ==
    ret.op = "HomePage" =>
        /\ ret.outcome = "returned"
        /\ ret.value.playerProfiles = Cardinality(Positions)
        /\ DisplayedNumber(ret.value.totalGoals)
               = TotalOver([i \in Positions |-> players[i].goals], Positions)
        /\ DisplayedNumber(ret.value.totalAssists)
               = TotalOver([i \in Positions |-> players[i].assists], Positions)
        /\ DisplayedNumber(ret.value.totalAppearances)
               = TotalOver([i \in Positions |-> players[i].appearances], Positions)
        /\ players = << >> =>
               /\ ret.value.playerProfiles = 0
               /\ ret.value.totalGoals = "0"
               /\ ret.value.totalAssists = "0"
               /\ ret.value.totalAppearances = "0"

\* the hub of the data table: 6 profiles, 2,534 goals, 988 assists and 3,745
\* appearances
C15_Witness ==
    /\ ret.op = "HomePage" /\ ret.outcome = "returned"
    /\ players = PlayersData
    /\ ret.value.playerProfiles = 6
    /\ ret.value.totalGoals = "2,534"
    /\ ret.value.totalAssists = "988"
    /\ ret.value.totalAppearances = "3,745"

\* the hub of the empty catalog
C15_WitnessEmpty ==
    /\ ret.op = "HomePage" /\ ret.outcome = "returned"
    /\ players = << >>
    /\ ret.value.totalGoals = "0"

\* C16: the hub links to /players/<slug> of every catalog player; a detail
\* page links back to the hub ("/") and to /players/<slug> of each of its
\* related players, which are catalog players other than its own.
C16_HubAndDetailPagesLinked ==
    /\ ret.op = "HomePage" =>
           /\ \A i \in Positions :
                  \E k \in DOMAIN ret.value.cards :
                      ret.value.cards[k].card.href = "/players/" \o players[i].slug
           /\ \A k \in DOMAIN ret.value.cards :
                  \E i \in Positions :
                      ret.value.cards[k].card.href = "/players/" \o players[i].slug
    /\ (ret.op = "PlayerPage" /\ ret.outcome = "returned") =>
           /\ "/" \in Range(ret.value.header.links)
           /\ ret.value.breadcrumb.links[1] = "/"
           /\ Len(ret.value.related) = Min(3, Len(players) - 1)
           /\ \A k \in DOMAIN ret.value.related :
                  \E i \in Positions :
                      /\ players[i].slug # RetSlug
                      /\ ret.value.related[k].name = players[i].name
                      /\ ret.value.related[k].href = "/players/" \o players[i].slug

\* Lionel Messi's page: back to the hub, on to the next three of the table
C16_Witness ==
    /\ ret.op = "PlayerPage" /\ ret.outcome = "returned"
    /\ RetSlug = "lionel-messi"
    /\ ret.value.breadcrumb.links[1] = "/"
    /\ [k \in 1..3 |-> ret.value.related[k].href]
           = << "/players/cristiano-ronaldo", "/players/kylian-mbappe",
                "/players/erling-haaland" >>

\* the hub of the data table, with its six cards
C16_WitnessHub ==
    /\ ret.op = "HomePage" /\ players = PlayersData
    /\ ret.value.cards[6].card.href = "/players/vinicius-junior"

\* C17: the text placed in the JSON-LD script element leaves no character
\* that is unsafe inside HTML unescaped: whatever the fields of the player
\* hold, the embedded text contains no raw "<", ">" or "&" (so no
\* "</script>" coming from a description).
C17_ScriptHasNoRawHtmlCharacter ==
    (ret.op = "PlayerPage" /\ ret.outcome = "returned") =>
        /\ ~Contains(ret.value.script.html, "<")
        /\ ~Contains(ret.value.script.html, ">")
        /\ ~Contains(ret.value.script.html, "&")

\* C18: overlapping renders need no coordination: however generateMetadata
\* and PlayerPage invocations for the same or different slugs interleave at
\* `await params`, each completes with what it yields when run alone on the
\* data table, and the catalog is as it was.
C18_OverlappingRendersAsAlone ==
    /\ players = PlayersData
    /\ ret.op = "generateMetadata" =>
           /\ ret.outcome = "returned"
           /\ ret.value = generateMetadata(PlayersData, RetSlug)
    /\ ret.op = "PlayerPage" =>
           [outcome |-> ret.outcome, value |-> ret.value]
               = PlayerPage(PlayersData, RetSlug)

\* a generateMetadata invocation completed while a PlayerPage invocation for
\* another slug is suspended
C18_Witness ==
    /\ ret.op = "generateMetadata" /\ RetSlug = "kylian-mbappe"
    /\ ret.value.title
           = "Kylian Mbappe - Real Madrid | Stats & Profile | FootballStats"
    /\ pending = { [op |-> "PlayerPage", slug |-> "jude-bellingham"] }

\* C19: a catalog with a repeated slug or a counter below zero is detected
\* when the program initializes and the program does not start: over such a
\* catalog no invocation is ever taken up or completed.
C19_MalformedCatalogNeverServes ==
    ~(UniqueSlugs(players) /\ NonNegativeCounters(players)) =>
        /\ pending = {}
        /\ ret = NoReturn

\* the number of hundredths a ratio text displays ("0.78" is 78)
DisplayedHundredths(text) ==
    100 * DisplayedNumber(SubSeq(text, 1, Len(text) - 3))
        + DisplayedNumber(SubSeq(text, Len(text) - 1, Len(text)))

\* the text shows count / appearances to two decimals: digits, a point and
\* two digits, naming a hundredth nearest the quotient (either neighbour
\* when the quotient lies midway)
ShowsQuotient(text, count, appearances) ==
    /\ Len(text) >= 4
    /\ SubSeq(text, Len(text) - 2, Len(text) - 2) = "."
    /\ 2 * Abs(100 * count - DisplayedHundredths(text) * appearances)
           <= appearances

\* the three texts of a player with these counters are the three quotients
\* to two decimals, and the combined one is not below either other
RatiosAsClaimed(ratios, goals, assists, appearances) ==
    /\ ShowsQuotient(ratios.goalsPerApp, goals, appearances)
    /\ ShowsQuotient(ratios.assistsPerApp, assists, appearances)
    /\ ShowsQuotient(ratios.gaPerApp, goals + assists, appearances)
    /\ DisplayedHundredths(ratios.gaPerApp)
           >= DisplayedHundredths(ratios.goalsPerApp)
    /\ DisplayedHundredths(ratios.gaPerApp)
           >= DisplayedHundredths(ratios.assistsPerApp)

\* the same for every record with counters up to MaxCounter
RatiosAsClaimedOverGrid ==
    \A goals, assists \in 0..MaxCounter : \A appearances \in 1..MaxCounter :
        RatiosAsClaimed(
            performanceRatios([ goals |-> goals, assists |-> assists,
                                appearances |-> appearances ]),
            goals, assists, appearances)

\* C20: for a player with appearances > 0 the page shows goals / appearances,
\* assists / appearances and (goals + assists) / appearances, each rounded to
\* two decimals, and the combined ratio is never smaller than either of the
\* other two.
C20_RatiosRoundedToTwoDecimals ==
    /\ RatiosAsClaimedOverGrid
    /\ ( /\ ret.op = "PlayerPage" /\ ret.outcome = "returned"
         /\ ret.value.appearances > 0 ) =>
           RatiosAsClaimed(ret.value.ratios, ret.value.goals,
                           ret.value.assists, ret.value.appearances)

\* Lionel Messi's page: 838 / 1068 shows as 0.78
C20_Witness ==
    /\ ret.op = "PlayerPage" /\ ret.outcome = "returned"
    /\ RetSlug = "lionel-messi"
    /\ ret.value.goals = 838 /\ ret.value.appearances = 1068
    /\ ret.value.ratios
           = [goalsPerApp |-> "0.78", assistsPerApp |-> "0.35", gaPerApp |-> "1.14"]

\* the bundle is the one generateMetadata returns for a missing player
IsFallbackBundle(bundle) ==
    /\ DOMAIN bundle = {"title", "description"}
    /\ bundle.title = "Player Not Found - FootballStats"

\* what generateMetadata returned and what PlayerPage yielded for one slug
\* agree: the fallback bundle exactly with the notFound() path, and
\* otherwise the same address in openGraph.url and in the structured data
MetadataAgreesWithPage(bundle, page) ==
    /\ IsFallbackBundle(bundle) <=> page.outcome = "notFound"
    /\ page.outcome = "returned" =>
           /\ ~IsFallbackBundle(bundle)
           /\ bundle.openGraph.url = page.value.jsonLd.url

\* C21: for every slug string generateMetadata and PlayerPage agree on
\* whether the player exists (the fallback bundle if and only if the
\* notFound() path), and for an existing player openGraph.url of the
\* metadata equals the url of the page's structured data.
C21_MetadataAndPageAgree ==
    /\ ret.op = "generateMetadata" =>
           MetadataAgreesWithPage(ret.value, PlayerPage(players, RetSlug))
    /\ ret.op = "PlayerPage" =>
           MetadataAgreesWithPage(generateMetadata(players, RetSlug),
                                  [outcome |-> ret.outcome, value |-> ret.value])

\* the metadata of Jude Bellingham's page while the page itself is being
\* rendered: both will carry the same address
C21_Witness ==
    /\ ret.op = "generateMetadata" /\ RetSlug = "jude-bellingham"
    /\ [op |-> "PlayerPage", slug |-> "jude-bellingham"] \in pending
    /\ ret.value.openGraph.url
           = "https://footballstats.vercel.app/players/jude-bellingham"
    /\ PlayerPage(players, RetSlug).outcome = "returned"

\* a slug in another letter case: the page is the not-found page and the
\* metadata, were it asked, the fallback bundle
C21_WitnessMissing ==
    /\ ret.op = "PlayerPage" /\ RetSlug = "Lionel-Messi"
    /\ ret.outcome = "notFound"
    /\ players = PlayersData

\* the link is a /players/<slug> link whose slug getPlayerBySlug resolves to
\* a player
ResolvesToPlayer(href) ==
    /\ Len(href) > Len("/players/")
    /\ SubSeq(href, 1, Len("/players/")) = "/players/"
    /\ getPlayerBySlug(players,
                       SubSeq(href, Len("/players/") + 1, Len(href))).kind = "ref"

\* the footer of the page the last invocation produced, if it has one
HasFooter ==
    \/ ret.op = "HomePage"
    \/ ret.op = "PlayerPage"
    \/ ret.op = "SiteFooter"

RetFooter == IF ret.op = "SiteFooter" THEN ret.value ELSE ret.value.footer

\* every /players/<slug> link of the page the last invocation produced: the
\* cards of the hub, the related players of a detail page, the footer
RetPlayerLinks ==
    (IF ret.op = "HomePage"
     THEN { ret.value.cards[k].card.href : k \in DOMAIN ret.value.cards }
     ELSE {})
    \cup (IF ret.op = "PlayerPage" /\ ret.outcome = "returned"
          THEN { ret.value.related[k].href : k \in DOMAIN ret.value.related }
          ELSE {})
    \cup (IF HasFooter
          THEN { RetFooter.playerLinks[k].href : k \in DOMAIN RetFooter.playerLinks }
          ELSE {})

\* C22: no internal link dangles: every /players/<slug> link of a rendered
\* page (hub cards, related players, the footer of every page, the
\* not-found page included) targets a slug getPlayerBySlug resolves, and the
\* footer lists every catalog player, in catalog order.
C22_NoDanglingPlayerLinks ==
    /\ \A href \in RetPlayerLinks : ResolvesToPlayer(href)
    /\ HasFooter =>
           /\ Len(RetFooter.playerLinks) = Len(players)
           /\ \A i \in Positions :
                  /\ RetFooter.playerLinks[i].href = "/players/" \o players[i].slug
                  /\ RetFooter.playerLinks[i].text = players[i].name

\* the not-found page over the data table: its footer links to all six
\* detail pages, in the order of the table
C22_Witness ==
    /\ ret.op = "PlayerPage" /\ ret.outcome = "notFound"
    /\ players = PlayersData
    /\ [k \in 1..6 |-> ret.value.footer.playerLinks[k].href]
           = << "/players/lionel-messi", "/players/cristiano-ronaldo",
                "/players/kylian-mbappe", "/players/erling-haaland",
                "/players/jude-bellingham", "/players/vinicius-junior" >>
    /\ Cardinality(RetPlayerLinks) = 6

=============================================================================
